---- MODULE Spec2Model ----
(***************************************************************************)
(* Model of the Mandelbrot-set drawer: the pixel grid (BitMap) with its    *)
(* constructors, indexed assignment, line drawing and BMP encoder          *)
(* (src/src/bitmap.rs), the complex arithmetic (src/src/complex.rs) and    *)
(* the escape-time evaluator with its plot-to-pixel mapping                *)
(* (src/src/main.rs).                                                      *)
(*                                                                         *)
(* Numbers: u8/u32/usize values are naturals far below 2^31 in every state *)
(* of the model, so no operation wraps.  f64 values are integers of small  *)
(* magnitude, which f64 represents and multiplies/adds exactly.  The f32   *)
(* interpolation of draw_line is modelled by exact rational rounding       *)
(* (half away from zero); the two agree for all coordinates below 22.      *)
(***************************************************************************)
EXTENDS Integers, Sequences, FiniteSets, TLC

\* ------------------------------------------------------------------ bounds
\* width, height and cells of a grid
MaxW == 3

MaxH == 6

MaxCells == 6

\* columns, and pixels of a column, of a from_rows input
MaxCols == 2

MaxColLen == 2

\* |re|, |im| of the points, the squared bounds and the iteration budgets the
\* evaluator is run on
MaxC == 2

MaxBound == 4

MaxIter == 3

\* the plot bounds lie in -MaxPlot..MaxPlot, the pixel size in 1..MaxPixelSize
MaxPlot == 2

MaxPixelSize == 2

\* ------------------------------------------------------------------ Pixel
Pixel(r, g, b) == [red |-> r, green |-> g, blue |-> b]

BLACK == Pixel(0, 0, 0)

WHITE == Pixel(255, 255, 255)

RED == Pixel(255, 0, 0)

Colors == {BLACK, WHITE, RED}

Abs(n) == IF n < 0 THEN -n ELSE n

\* ----------------------------------------------------------- byte helpers
u16_to_u8(x) == << x % 256, (x \div 256) % 256 >>

u32_to_u8(x) ==
  << x % 256, (x \div 256) % 256, (x \div (256 * 256)) % 256,
     (x \div (256 * 256 * 256)) % 256 >>

offset_to(current, offset) ==
  IF current % offset = 0 THEN 0 ELSE offset - (current % offset)

\* ------------------------------------------------------------ pixel store
\* data is a sequence of columns, each a sequence of pixels; data[x][y] of the
\* source (0-based) is data[x + 1][y + 1] here.
At(d, x, y) == d[x + 1][y + 1]

\* Vec's bounds check of data[x][y]
InBounds(d, x, y) == x < Len(d) /\ y < Len(d[x + 1])

\* IndexMut: bitmap[(x, y)] = p, for an index in bounds
Put(d, x, y, p) == [d EXCEPT ![x + 1][y + 1] = p]

\* BitMap::new rejecting only the columns longer than the first
BitMapNewLonger(cols) ==
  LET w == Len(cols) IN
  IF w = 0
  THEN [ok |-> TRUE, data |-> cols, width |-> 0, height |-> 0]
  ELSE LET h == Len(cols[1]) IN
       IF \E i \in 2..w : Len(cols[i]) > h
       THEN [ok |-> FALSE, data |-> << >>, width |-> 0, height |-> 0]
       ELSE [ok |-> TRUE, data |-> cols, width |-> w, height |-> h]

\* BitMap::new without the loop over the columns
BitMapNewUnchecked(cols) ==
  LET w == Len(cols) IN
  IF w = 0
  THEN [ok |-> TRUE, data |-> cols, width |-> 0, height |-> 0]
  ELSE [ok |-> TRUE, data |-> cols, width |-> w, height |-> Len(cols[1])]

\* BitMap::new: the Result, with the BitMap's fields when Ok
BitMapNew(cols) ==
  LET w == Len(cols) IN
  IF w = 0
  THEN [ok |-> TRUE, data |-> cols, width |-> 0, height |-> 0]
  ELSE LET h == Len(cols[1]) IN
       IF \E i \in 2..w : Len(cols[i]) # h
       THEN [ok |-> FALSE, data |-> << >>, width |-> 0, height |-> 0]
       ELSE [ok |-> TRUE, data |-> cols, width |-> w, height |-> h]

\* BitMap::new_blank
BitMapNewBlank(color, w, h) ==
  [data |-> [x \in 1..w |-> [y \in 1..h |-> color]], width |-> w, height |-> h]

\* ---------------------------------------------------- complex arithmetic
Complex(re, im) == [re |-> re, im |-> im]

\* Add<Complex<N>> for Complex<N>
ComplexAdd(a, b) == Complex(a.re + b.re, a.im + b.im)

\* Mul<Complex<N>> for Complex<N>
ComplexMul(a, b) ==
  LET re == a.re * b.re - a.im * b.im
      im == a.re * b.im + a.im * b.re
  IN Complex(re, im)

\* Mul<N> for Complex<N>
ComplexScale(a, rhs) == Complex(a.re * rhs, a.im * rhs)

conjugate(a) == Complex(a.re, -a.im)

\* module_sq without the square of the imaginary part
ModuleSqLinearIm(a) == a.re * a.re + a.im

module_sq(a) == a.re * a.re + a.im * a.im

\* ------------------------------------------------- escape-time evaluator
\* The loop of mandelbrot with >= for >
RECURSIVE MandelLoopGeq(_, _, _, _)
MandelLoopGeq(z, c, bound, n) ==
  IF n = 0
  THEN TRUE
  ELSE LET z2 == ComplexAdd(ComplexMul(z, z), c) IN
       IF module_sq(z2) >= bound THEN FALSE ELSE MandelLoopGeq(z2, c, bound, n - 1)

\* The loop of mandelbrot with n iterations left and the current z.
RECURSIVE MandelLoop(_, _, _, _)
MandelLoop(z, c, bound, n) ==
  IF n = 0
  THEN TRUE
  ELSE LET z2 == ComplexAdd(ComplexMul(z, z), c) IN
       IF module_sq(z2) > bound THEN FALSE ELSE MandelLoop(z2, c, bound, n - 1)

mandelbrot(c, bound, max_iter) == MandelLoop(Complex(0, 0), c, bound, max_iter)

\* ----------------------------------------------------------- generators
\* A generator is the value passed as gen: the closure create_generator
\* returns (kind "mandelbrot", with what it captures), a constant-returning
\* function (kind "const") or a function of the coordinates that tells columns
\* from rows (kind "stripe").
Closure(kind, cent_x, cent_y, pixel_size, bound, max_iter, color) ==
  [kind |-> kind, cent_x |-> cent_x, cent_y |-> cent_y, pixel_size |-> pixel_size,
   bound |-> bound, max_iter |-> max_iter, color |-> color]

create_generator(center, pixel_size, bound, max_iter) ==
  Closure("mandelbrot", center[1], center[2], pixel_size, bound, max_iter, BLACK)

\* The complex point the closure classifies for pixel (x, y)
GenPoint(g, x, y) ==
  ComplexScale(Complex(x - g.cent_x, y - g.cent_y), g.pixel_size)

\* The closure's body
GenMandelbrot(g, x, y) ==
  IF mandelbrot(GenPoint(g, x, y), g.bound, g.max_iter) THEN BLACK ELSE WHITE

\* gen(x, y)
Gen(g, x, y) ==
  CASE g.kind = "mandelbrot" -> GenMandelbrot(g, x, y)
    [] g.kind = "const" -> g.color
    [] OTHER -> IF x = 0 THEN RED ELSE IF y % 2 = 0 THEN BLACK ELSE WHITE

\* The loops of new_from_generator calling gen(y, x)
RECURSIVE GenLoopSwapped(_, _, _, _, _, _)
GenLoopSwapped(d, g, w, h, x, y) ==
  IF x >= w THEN d
  ELSE IF y >= h THEN GenLoopSwapped(d, g, w, h, x + 1, 0)
  ELSE GenLoopSwapped(Put(d, x, y, Gen(g, y, x)), g, w, h, x, y + 1)

\* The loops of new_from_generator, from the position (x, y)
RECURSIVE GenLoop(_, _, _, _, _, _)
GenLoop(d, g, w, h, x, y) ==
  IF x >= w THEN d
  ELSE IF y >= h THEN GenLoop(d, g, w, h, x + 1, 0)
  ELSE GenLoop(Put(d, x, y, Gen(g, x, y)), g, w, h, x, y + 1)

\* BitMap::new_from_generator
BitMapNewFromGenerator(g, w, h) ==
  LET bitmap == BitMapNewBlank(WHITE, w, h) IN
  [bitmap EXCEPT !.data = GenLoop(bitmap.data, g, w, h, 0, 0)]

\* ------------------------------------------------------ plot -> pixel
\* ceil(n / d) for d > 0
CeilDiv(n, d) == -((-n) \div d)

\* (n / d).round() for d > 0: half away from zero
RoundDiv(n, d) ==
  IF n >= 0 THEN (2 * n + d) \div (2 * d) ELSE -((2 * (-n) + d) \div (2 * d))

\* `as u32` of a float: negative values saturate to 0
AsU32(v) == IF v < 0 THEN 0 ELSE v

PlotWidth(x1, x2, pixel_size) == AsU32(CeilDiv(x2 - x1, pixel_size))

PlotHeight(y1, y2, pixel_size) == AsU32(CeilDiv(y2 - y1, pixel_size))

\* The center without the negation of x1
PlotCenterNoNeg(x1, y2, pixel_size) ==
  << RoundDiv(x1, pixel_size), RoundDiv(y2, pixel_size) >>

PlotCenter(x1, y2, pixel_size) ==
  << RoundDiv(-x1, pixel_size), RoundDiv(y2, pixel_size) >>

\* get_bitmap_mandelbrot
get_bitmap_mandelbrot(p1, p2, pixel_size, bound, max_iter) ==
  BitMapNewFromGenerator(
    create_generator(PlotCenter(p1[1], p2[2], pixel_size), pixel_size, bound, max_iter),
    PlotWidth(p1[1], p2[1], pixel_size), PlotHeight(p1[2], p2[2], pixel_size))

\* ------------------------------------------------------------- draw_line
\* round(k * (dnum / dden) + base), the coordinate on the other axis
Lerp(k, dnum, dden, base) ==
  IF dden = 0 THEN base
  ELSE AsU32((2 * (base * dden + k * dnum) + dden) \div (2 * dden))

\* draw_line with exclusive ranges (s_x .. f_x, s_y .. f_y)
LinePointsExclusive(p1, p2) ==
  LET x1 == p1[1]
      y1 == p1[2]
      x2 == p2[1]
      y2 == p2[2]
  IN IF Abs(x1 - x2) > Abs(y1 - y2)
     THEN LET s == IF x1 < x2 THEN <<x1, y1, x2, y2>> ELSE <<x2, y2, x1, y1>> IN
          [k \in 1..(s[3] - s[1]) |->
             << s[1] + (k - 1), Lerp(k - 1, s[4] - s[2], s[3] - s[1], s[2]) >>]
     ELSE LET s == IF y1 < y2 THEN <<x1, y1, x2, y2>> ELSE <<x2, y2, x1, y1>> IN
          [k \in 1..(s[4] - s[2]) |->
             << Lerp(k - 1, s[3] - s[1], IF y1 # y2 THEN s[4] - s[2] ELSE 0, s[1]),
                s[2] + (k - 1) >>]

\* The pixels draw_line assigns, in the order it assigns them
LinePoints(p1, p2) ==
  LET x1 == p1[1]
      y1 == p1[2]
      x2 == p2[1]
      y2 == p2[2]
  IN IF Abs(x1 - x2) > Abs(y1 - y2)
     THEN LET s == IF x1 < x2 THEN <<x1, y1, x2, y2>> ELSE <<x2, y2, x1, y1>> IN
          [k \in 1..(s[3] - s[1] + 1) |->
             << s[1] + (k - 1), Lerp(k - 1, s[4] - s[2], s[3] - s[1], s[2]) >>]
     ELSE LET s == IF y1 < y2 THEN <<x1, y1, x2, y2>> ELSE <<x2, y2, x1, y1>> IN
          [k \in 1..(s[4] - s[2] + 1) |->
             << Lerp(k - 1, s[3] - s[1], IF y1 # y2 THEN s[4] - s[2] ELSE 0, s[1]),
                s[2] + (k - 1) >>]

\* Assigning color to the pixels of pts from the i-th on; an index out of
\* bounds panics and leaves what was assigned before it.
RECURSIVE Paint(_, _, _, _)
Paint(d, pts, i, color) ==
  IF i > Len(pts) THEN [data |-> d, panic |-> FALSE]
  ELSE IF ~InBounds(d, pts[i][1], pts[i][2]) THEN [data |-> d, panic |-> TRUE]
  ELSE Paint(Put(d, pts[i][1], pts[i][2], color), pts, i + 1, color)

\* BitMap::draw_line
BitMapDrawLine(d, p1, p2, color) == Paint(d, LinePoints(p1, p2), 1, color)

\* ------------------------------------------------------------ save_as_bmp
RECURSIVE Concat(_)
Concat(ss) == IF ss = << >> THEN << >> ELSE Head(ss) \o Concat(Tail(ss))

get_header(size) ==
  << 66, 77 >> \o u32_to_u8(size) \o u32_to_u8(0) \o u32_to_u8(54)

get_info_header(w, h) ==
  u32_to_u8(40) \o u32_to_u8(w) \o u32_to_u8(h) \o u16_to_u8(1) \o u16_to_u8(24)
  \o u32_to_u8(0) \o u32_to_u8(0) \o u32_to_u8(100) \o u32_to_u8(100)
  \o u32_to_u8(0) \o u32_to_u8(0)

\* The bytes pushed for row y: the pixels left to right, then the padding
RowBytes(d, w, y) ==
  Concat([x \in 1..w |->
            << At(d, x - 1, y).blue, At(d, x - 1, y).green, At(d, x - 1, y).red >>])
  \o [i \in 1..offset_to(w * 3, 4) |-> 0]

\* The size with the padding of the rows counted
HeaderSizePadded(w, h) == 14 + 40 + h * (w * 3 + offset_to(w * 3, 4))

\* The size handed to get_header
HeaderSize(w, h) == 14 + 40 + w * h * 3

\* The byte vector with the rows top to bottom (the loop without rev)
BmpBytesTopDown(d, w, h) ==
  get_header(HeaderSize(w, h)) \o get_info_header(w, h)
  \o Concat([r \in 1..h |-> RowBytes(d, w, r - 1)])

\* The byte vector res that save_as_bmp hands to fs::write
BmpBytes(d, w, h) ==
  get_header(HeaderSize(w, h)) \o get_info_header(w, h)
  \o Concat([r \in 1..h |-> RowBytes(d, w, h - r)])

\* Whether every data[x][y] that save_as_bmp reads is in bounds
Readable(d, w, h) == \A x \in 0..(w - 1) : \A y \in 0..(h - 1) : InBounds(d, x, y)

\* ============================================================ the state
\* pc: "none" before construction, "filling" inside new_from_generator, "grid"
\* while a BitMap is alive, "err" after BitMap::new returned Err, "panic" after
\* an index out of bounds, "saved" after save_as_bmp returned (the grid is
\* serialized once, last).
\* width, height, data: the BitMap's fields.
\* call: the call that has just returned, with its arguments, until the caller
\* moves on.  result: the last Result returned.  file: the bytes fs::write
\* wrote.
\* pending: the cells new_from_generator has not assigned yet.
\* plot: the arguments of get_bitmap_mandelbrot.  gen: the closure it created.
\* args: the arguments of mandelbrot.  ret, retc: what it returned for c and
\* for conjugate(c), << >> before it returned.
VARIABLES pc, width, height, data, call, result, file, pending, plot, gen, args, ret, retc

vars == << pc, width, height, data, call, result, file, pending, plot, gen, args, ret, retc >>

fillVars == << pending >>

plotVars == << plot, gen >>

evalVars == << args, ret, retc >>

Call(op, args_) == [op |-> op, args |-> args_]

NoCall == Call("none", << >>)

Plot(x1, y1, x2, y2, pixel_size, bound, max_iter) ==
  [x1 |-> x1, y1 |-> y1, x2 |-> x2, y2 |-> y2, pixel_size |-> pixel_size,
   bound |-> bound, max_iter |-> max_iter]

Args(c, bound, max_iter) == [c |-> c, bound |-> bound, max_iter |-> max_iter]

NoGen == Closure("none", 0, 0, 0, 0, 0, BLACK)

GridIdle ==
  /\ pc = "none"
  /\ width = 0
  /\ height = 0
  /\ data = << >>
  /\ call = NoCall
  /\ result = "none"
  /\ file = << >>

FillIdle == pending = {}

PlotIdle == plot = Plot(0, 0, 0, 0, 0, 0, 0) /\ gen = NoGen

EvalIdle == args = Args(Complex(0, 0), 0, 0) /\ ret = << >> /\ retc = << >>

\* ------------------------------------------------------------ the inputs
Column == UNION {[1..n -> {BLACK, WHITE}] : n \in 0..MaxColLen}

RECURSIVE Cells(_)
Cells(cols) == IF cols = << >> THEN 0 ELSE Len(Head(cols)) + Cells(Tail(cols))

RowInputs ==
  {cols \in UNION {[1..w -> Column] : w \in 0..MaxCols} : Cells(cols) <= MaxCells}

Dims == {d \in (0..MaxW) \X (0..MaxH) : d[1] * d[2] <= MaxCells}

Generators ==
  { create_generator(<<1, 1>>, 1, 4, 2),
    Closure("const", 0, 0, 0, 0, 0, RED),
    Closure("stripe", 0, 0, 0, 0, 0, BLACK) }

\* The points of the grid, and two just outside it
Points ==
  ((0..(width - 1)) \X (0..(height - 1))) \cup {<<width, height>>, <<0, height>>}

\* ============================================================ the grid
Init == GridIdle /\ FillIdle /\ PlotIdle /\ EvalIdle

\* BitMap::new(cols)
New(cols) ==
  /\ pc = "none"
  /\ LET r == BitMapNew(cols) IN
       /\ pc' = IF r.ok THEN "grid" ELSE "err"
       /\ result' = IF r.ok THEN "Ok" ELSE "Err"
       /\ width' = r.width
       /\ height' = r.height
       /\ data' = r.data
  /\ call' = Call("new", <<cols>>)
  /\ UNCHANGED << file, fillVars, plotVars, evalVars >>

\* BitMap::new_blank(color, w, h)
NewBlank(color, w, h) ==
  /\ pc = "none"
  /\ LET b == BitMapNewBlank(color, w, h) IN
       /\ width' = b.width
       /\ height' = b.height
       /\ data' = b.data
  /\ pc' = "grid"
  /\ call' = Call("new_blank", <<color, w, h>>)
  /\ UNCHANGED << result, file, fillVars, plotVars, evalVars >>

\* BitMap::new_from_generator(gen, w, h)
NewFromGenerator(g, w, h) ==
  /\ pc = "none"
  /\ LET b == BitMapNewFromGenerator(g, w, h) IN
       /\ width' = b.width
       /\ height' = b.height
       /\ data' = b.data
  /\ pc' = "grid"
  /\ call' = Call("new_from_generator", <<g, w, h>>)
  /\ UNCHANGED << result, file, fillVars, plotVars, evalVars >>

\* bitmap[(x, y)] = color
SetPixel(x, y, color) ==
  /\ pc = "grid"
  /\ call = NoCall
  /\ IF InBounds(data, x, y)
     THEN data' = Put(data, x, y, color) /\ pc' = "grid"
     ELSE data' = data /\ pc' = "panic"
  /\ call' = Call("index_mut", <<x, y, color>>)
  /\ UNCHANGED << width, height, result, file, fillVars, plotVars, evalVars >>

\* bitmap.draw_line(p1, p2, color)
DrawLine(p1, p2, color) ==
  /\ pc = "grid"
  /\ call = NoCall
  /\ LET r == BitMapDrawLine(data, p1, p2, color) IN
       /\ data' = r.data
       /\ pc' = IF r.panic THEN "panic" ELSE "grid"
  /\ call' = Call("draw_line", <<p1, p2, color>>)
  /\ UNCHANGED << width, height, result, file, fillVars, plotVars, evalVars >>

\* bitmap.save_as_bmp(path); fs::write succeeds or fails
SaveAsBmp(written) ==
  /\ pc = "grid"
  /\ call = NoCall
  /\ IF Readable(data, width, height)
     THEN /\ pc' = "saved"
          /\ result' = IF written THEN "Ok" ELSE "Err"
          /\ file' = IF written THEN BmpBytes(data, width, height) ELSE file
     ELSE /\ pc' = "panic"
          /\ UNCHANGED << result, file >>
  /\ call' = Call("save_as_bmp", << >>)
  /\ UNCHANGED << width, height, data, fillVars, plotVars, evalVars >>

\* The caller moves on from the call that returned
Return ==
  /\ pc = "grid"
  /\ call # NoCall
  /\ call' = NoCall
  /\ UNCHANGED << pc, width, height, data, result, file, fillVars, plotVars, evalVars >>

Next ==
  \/ pc = "none" /\ \E cols \in RowInputs : New(cols)
  \/ pc = "none" /\ \E color \in Colors, d \in Dims : NewBlank(color, d[1], d[2])
  \/ pc = "none" /\ \E g \in Generators, d \in Dims : NewFromGenerator(g, d[1], d[2])
  \/ pc = "grid" /\ \E p \in Points, color \in {BLACK, RED} : SetPixel(p[1], p[2], color)
  \/ pc = "grid" /\ \E p1 \in Points, p2 \in Points, color \in {RED} : DrawLine(p1, p2, color)
  \/ \E written \in BOOLEAN : SaveAsBmp(written)
  \/ Return

Spec == Init /\ [][Next]_vars

\* ============================================== new_from_generator, by cell
\* The fill of new_from_generator one assignment at a time, the cells taken in
\* any order (the source takes them column by column; workers that share the
\* cells between them take them in some interleaving).
FillStart(g, w, h) ==
  /\ pc = "none"
  /\ LET bitmap == BitMapNewBlank(WHITE, w, h) IN
       /\ width' = bitmap.width
       /\ height' = bitmap.height
       /\ data' = bitmap.data
  /\ pending' = (0..(w - 1)) \X (0..(h - 1))
  /\ pc' = "filling"
  /\ call' = Call("new_from_generator", <<g, w, h>>)
  /\ UNCHANGED << result, file, plotVars, evalVars >>

\* bitmap[(x, y)] = gen(x, y)
FillCell(x, y) ==
  /\ pc = "filling"
  /\ <<x, y>> \in pending
  /\ IF InBounds(data, x, y)
     THEN data' = Put(data, x, y, Gen(call.args[1], x, y)) /\ pc' = "filling"
     ELSE data' = data /\ pc' = "panic"
  /\ pending' = pending \ {<<x, y>>}
  /\ UNCHANGED << width, height, call, result, file, plotVars, evalVars >>

\* The loops are over: bitmap is returned
FillDone ==
  /\ pc = "filling"
  /\ pending = {}
  /\ pc' = "grid"
  /\ UNCHANGED << width, height, data, call, result, file, pending, plotVars, evalVars >>

FillGenerators ==
  Generators \cup { create_generator(<<0, 2>>, 1, 4, 3), create_generator(<<1, 0>>, 2, 1, 1) }

FillNext ==
  \/ pc = "none" /\ \E g \in FillGenerators, d \in Dims : FillStart(g, d[1], d[2])
  \/ \E p \in pending : FillCell(p[1], p[2])
  \/ FillDone

SpecFill == Init /\ [][FillNext]_vars

\* ======================================================= the rendering
PlotInputs ==
  { Plot(x1, y1, x2, y2, ps, b * b, n) :
      x1 \in (-MaxPlot)..MaxPlot, y1 \in (-MaxPlot)..MaxPlot,
      x2 \in (-MaxPlot)..MaxPlot, y2 \in (-MaxPlot)..MaxPlot,
      ps \in 1..MaxPixelSize, b \in 1..2, n \in 0..MaxIter }

\* main's validation of the bounds
PlotInit ==
  /\ GridIdle /\ FillIdle /\ EvalIdle
  /\ gen = NoGen
  /\ plot \in {p \in PlotInputs : p.x1 < p.x2 /\ p.y1 < p.y2}

\* get_bitmap_mandelbrot((x1, y1), (x2, y2), pixel_size, bound, max_iter)
Render ==
  /\ pc = "none"
  /\ LET b == get_bitmap_mandelbrot(<<plot.x1, plot.y1>>, <<plot.x2, plot.y2>>,
                                    plot.pixel_size, plot.bound, plot.max_iter)
     IN /\ width' = b.width
        /\ height' = b.height
        /\ data' = b.data
  /\ gen' = create_generator(PlotCenter(plot.x1, plot.y2, plot.pixel_size),
                             plot.pixel_size, plot.bound, plot.max_iter)
  /\ pc' = "grid"
  /\ call' = Call("get_bitmap_mandelbrot", << >>)
  /\ UNCHANGED << result, file, plot, fillVars, evalVars >>

PlotNext ==
  \/ Render
  \/ Return
  \/ \E written \in BOOLEAN : SaveAsBmp(written)

SpecPlot == PlotInit /\ [][PlotNext]_vars

\* ======================================================= the evaluator
EvalInputs ==
  { Args(Complex(re, im), b, n) :
      re \in (-MaxC)..MaxC, im \in (-MaxC)..MaxC, b \in (-1)..MaxBound, n \in 0..MaxIter }

EvalInit ==
  /\ GridIdle /\ FillIdle /\ PlotIdle
  /\ args \in EvalInputs
  /\ ret = << >>
  /\ retc = << >>

\* mandelbrot(c, bound, max_iter)
Evaluate ==
  /\ ret = << >>
  /\ ret' = << mandelbrot(args.c, args.bound, args.max_iter) >>
  /\ UNCHANGED << pc, width, height, data, call, result, file, fillVars, plotVars, args, retc >>

\* mandelbrot(c.conjugate(), bound, max_iter)
EvaluateConjugate ==
  /\ retc = << >>
  /\ retc' = << mandelbrot(conjugate(args.c), args.bound, args.max_iter) >>
  /\ UNCHANGED << pc, width, height, data, call, result, file, fillVars, plotVars, args, ret >>

EvalNext == Evaluate \/ EvaluateConjugate

SpecEval == EvalInit /\ [][EvalNext]_vars

\* ============================================================ the claims
Saved == pc = "saved" /\ result = "Ok"

\* The little-endian 32-bit field at bytes 2..5 of the file
FileSizeField ==
  file[3] + 256 * file[4] + 256 * 256 * file[5] + 256 * 256 * 256 * file[6]

\* The length of a row of the file: 3 * w rounded up to a multiple of 4
Stride(w) == 4 * CeilDiv(3 * w, 4)

C2_PixelLayout ==
  Saved =>
    /\ Len(file) = 54 + height * Stride(width)
    /\ \A x \in 0..(width - 1) : \A y \in 0..(height - 1) :
         LET off == 54 + (height - 1 - y) * Stride(width) + 3 * x IN
           /\ file[off + 1] = At(data, x, y).blue
           /\ file[off + 2] = At(data, x, y).green
           /\ file[off + 3] = At(data, x, y).red
    /\ \A r \in 0..(height - 1) : \A j \in (3 * width + 1)..Stride(width) :
         file[54 + r * Stride(width) + j] = 0
    /\ (width = 1 /\ height = 1 /\ At(data, 0, 0) = RED) =>
         (Len(file) = 58 /\ SubSeq(file, 55, 58) = <<0, 0, 255, 0>>)

\* A 2x2 grid whose rows differ, whose columns differ and that holds a RED
\* pixel has been written.
C2_Witness ==
  /\ Saved
  /\ width = 2
  /\ height = 2
  /\ At(data, 0, 0) = RED
  /\ At(data, 0, 1) = BLACK
  /\ At(data, 1, 0) = WHITE

\* C3: BitMap::new returns Err exactly when some column's length differs from
\* the first column's; otherwise the grid's width is the number of columns and
\* its height the first column's length, (0, 0) for no columns.
C3_FromRows ==
  call.op = "new" =>
    LET cols == call.args[1] IN
      /\ result \in {"Ok", "Err"}
      /\ result = "Err" <=> (\E i \in 1..Len(cols) : Len(cols[i]) # Len(cols[1]))
      /\ result = "Err" => pc = "err"
      /\ result = "Ok" =>
           /\ pc = "grid"
           /\ width = Len(cols)
           /\ height = (IF Len(cols) = 0 THEN 0 ELSE Len(cols[1]))

\* BitMap::new has rejected an input whose second column is shorter than the
\* first.
C3_Witness ==
  /\ call.op = "new"
  /\ result = "Err"
  /\ Len(call.args[1]) = 2
  /\ Len(call.args[1][2]) < Len(call.args[1][1])

\* Whether p is a pixel of the grid
Inside(p) == p[1] < width /\ p[2] < height

\* Column x: the pixel at row y has the color and the others are unchanged
OnlyInColumn(x, y, color) ==
  /\ At(data', x, y) = color
  /\ \A yy \in 0..(height - 1) : yy # y => At(data', x, yy) = At(data, x, yy)

\* Row y: the pixel at column x has the color and the others are unchanged
OnlyInRow(y, x, color) ==
  /\ At(data', x, y) = color
  /\ \A xx \in 0..(width - 1) : xx # x => At(data', xx, y) = At(data, xx, y)

Min(a, b) == IF a < b THEN a ELSE b

Max(a, b) == IF a > b THEN a ELSE b

\* What a draw_line step from p1 to p2 leaves behind
LinePost(p1, p2, color) ==
  LET dx == Abs(p1[1] - p2[1])
      dy == Abs(p1[2] - p2[2])
  IN /\ pc' = "grid"
     /\ width' = width
     /\ height' = height
     /\ Len(data') = width
     /\ \A x \in 1..width : Len(data'[x]) = height
     /\ dx >= dy =>
          \A x \in 0..(width - 1) :
            IF x >= Min(p1[1], p2[1]) /\ x <= Max(p1[1], p2[1])
            THEN \E y \in 0..(height - 1) :
                   /\ x = p1[1] => y = p1[2]
                   /\ x = p2[1] => y = p2[2]
                   /\ OnlyInColumn(x, y, color)
            ELSE data'[x + 1] = data[x + 1]
     /\ dy >= dx =>
          \A y \in 0..(height - 1) :
            IF y >= Min(p1[2], p2[2]) /\ y <= Max(p1[2], p2[2])
            THEN \E x \in 0..(width - 1) :
                   /\ y = p1[2] => x = p1[1]
                   /\ y = p2[2] => x = p2[1]
                   /\ OnlyInRow(y, x, color)
            ELSE \A x \in 0..(width - 1) : At(data', x, y) = At(data, x, y)
     /\ (p1 = <<0, 0>> /\ p2 = <<0, 5>>) =>
          \A x \in 0..(width - 1) : \A y \in 0..(height - 1) :
            At(data', x, y) = IF x = 0 /\ y <= 5 THEN color ELSE At(data, x, y)

\* C6: draw_line between two points of the grid assigns the color to exactly
\* one pixel for each coordinate of the dominant axis between the endpoints,
\* both endpoints among them, and leaves every other pixel and the size as they
\* were; from (0,0) to (0,5) it paints exactly the pixels (0,0) .. (0,5).
C6_DrawLine ==
  [][ ( /\ call = NoCall
        /\ call'.op = "draw_line"
        /\ Inside(call'.args[1])
        /\ Inside(call'.args[2]) )
      => LinePost(call'.args[1], call'.args[2], call'.args[3]) ]_vars

\* A slanted line has been drawn across a grid that keeps a pixel of another
\* color.
C6_Witness ==
  /\ pc = "grid"
  /\ call.op = "draw_line"
  /\ call.args[1] = <<0, 0>>
  /\ call.args[2] = <<1, 2>>
  /\ width = 2
  /\ height = 3
  /\ At(data, 1, 0) = BLACK
  /\ At(data, 0, 2) = WHITE

\* The line from (0,0) to (0,5) has been drawn.
C6_WitnessVertical ==
  /\ pc = "grid"
  /\ call.op = "draw_line"
  /\ call.args[1] = <<0, 0>>
  /\ call.args[2] = <<0, 5>>

\* C7: every grid of width 0 has height 0, whichever constructor made it.
C7_ZeroWidthZeroHeight ==
  (pc \in {"grid", "saved"} /\ width = 0) => height = 0

\* C8: whatever was done to a grid, its pixel store has exactly width columns
\* of exactly height pixels each.
C8_Rectangular ==
  pc \in {"grid", "saved", "panic"} =>
    /\ Len(data) = width
    /\ \A x \in 1..Len(data) : Len(data[x]) = height

\* A line has been drawn on a 2x3 grid that an assignment or a generator had
\* given pixels of the two other colors.
C8_Witness ==
  /\ pc = "grid"
  /\ call.op = "draw_line"
  /\ width = 2
  /\ height = 3
  /\ \E x \in 0..1, y \in 0..2 : At(data, x, y) = BLACK
  /\ \E x \in 0..1, y \in 0..2 : At(data, x, y) = WHITE
  /\ \E x \in 0..1, y \in 0..2 : At(data, x, y) = RED

\* C9: new_from_generator(gen, width, height) returns a grid of that size
\* whose every cell (x, y) is gen(x, y), the same grid in whatever order the
\* cells are assigned, the source's column-by-column order among them.
C9_Generated ==
  (pc = "grid" /\ call.op = "new_from_generator") =>
    LET g == call.args[1]
        w == call.args[2]
        h == call.args[3]
    IN /\ width = w
       /\ height = h
       /\ Len(data) = w
       /\ \A x \in 0..(w - 1) :
            /\ Len(data[x + 1]) = h
            /\ \A y \in 0..(h - 1) : At(data, x, y) = Gen(g, x, y)
       /\ data = BitMapNewFromGenerator(g, w, h).data

\* A 2x3 grid has been filled from the Mandelbrot closure, with pixels of both
\* of its colors.
C9_Witness ==
  /\ pc = "grid"
  /\ call.op = "new_from_generator"
  /\ call.args[1].kind = "mandelbrot"
  /\ width = 2
  /\ height = 3
  /\ \E x \in 0..1, y \in 0..2 : At(data, x, y) = BLACK
  /\ \E x \in 0..1, y \in 0..2 : At(data, x, y) = WHITE

\* The sequence z_0 = 0, z_k = z_(k-1)^2 + c, as <<re, im>>
RECURSIVE Z(_, _)
Z(c, k) ==
  IF k = 0 THEN <<0, 0>>
  ELSE LET p == Z(c, k - 1) IN
       << p[1] * p[1] - p[2] * p[2] + c.re, 2 * p[1] * p[2] + c.im >>

Escapes(c, bound, max_iter) ==
  \E k \in 1..max_iter : Z(c, k)[1] * Z(c, k)[1] + Z(c, k)[2] * Z(c, k)[2] > bound

\* C4: mandelbrot(c, bound, max_iter) is false exactly when module_sq(z_k) >
\* bound for some k in 1..max_iter, and true otherwise; it is true for
\* max_iter = 0.
C4_IsBounded ==
  ret # << >> =>
    /\ ret[1] = ~Escapes(args.c, args.bound, args.max_iter)
    /\ args.max_iter = 0 => ret[1] = TRUE

\* mandelbrot has returned true for c = 1, bound 4 and two iterations, where
\* module_sq(z_2) equals the bound.
C4_Witness == ret = <<TRUE>> /\ args = Args(Complex(1, 0), 4, 2)

\* C10: mandelbrot returns the same for c and for conjugate(c), so the color
\* the closure gives a pixel is that of the pixel it maps to the conjugate.
C10_ConjugateSymmetry ==
  (ret # << >> /\ retc # << >>) =>
    /\ ret = retc
    /\ LET g == create_generator(<<MaxC, MaxC>>, 1, args.bound, args.max_iter) IN
         GenMandelbrot(g, args.c.re + MaxC, MaxC + args.c.im)
           = GenMandelbrot(g, args.c.re + MaxC, MaxC - args.c.im)

\* mandelbrot has returned false for a point off the real axis and for its
\* conjugate, after more than one iteration.
C10_Witness ==
  /\ ret = <<FALSE>>
  /\ retc = <<FALSE>>
  /\ args = Args(Complex(1, 1), 4, 3)

\* The bounds of the plot are multiples of pixel_size
Multiples ==
  /\ plot.x1 % plot.pixel_size = 0
  /\ plot.y1 % plot.pixel_size = 0
  /\ plot.x2 % plot.pixel_size = 0
  /\ plot.y2 % plot.pixel_size = 0

Rendered == pc \in {"grid", "saved"} /\ gen.kind = "mandelbrot"

ColorOf(c) == IF mandelbrot(c, plot.bound, plot.max_iter) THEN BLACK ELSE WHITE

\* C5 as stated: for bounds that are multiples of pixel_size, the point
\* classified for pixel (x, y) is (x1 + x * pixel_size, y2 - y * pixel_size).
C5_PointAsStated ==
  (Rendered /\ Multiples) =>
    \A x \in 0..(width - 1) : \A y \in 0..(height - 1) :
      GenPoint(gen, x, y)
        = Complex(plot.x1 + x * plot.pixel_size, plot.y2 - y * plot.pixel_size)

\* C5 amended: for bounds that are multiples of pixel_size, the point
\* classified for pixel (x, y) is (x1 + x * pixel_size, y * pixel_size - y2),
\* the conjugate of the point stated, and the pixel has the color of both.
C5_Point ==
  (Rendered /\ Multiples) =>
    \A x \in 0..(width - 1) : \A y \in 0..(height - 1) :
      /\ GenPoint(gen, x, y)
           = Complex(plot.x1 + x * plot.pixel_size, y * plot.pixel_size - plot.y2)
      /\ At(data, x, y) = ColorOf(GenPoint(gen, x, y))
      /\ At(data, x, y)
           = ColorOf(Complex(plot.x1 + x * plot.pixel_size,
                             plot.y2 - y * plot.pixel_size))

\* A plot of 2x2 pixels of size 2 has been rendered, with pixels of both colors.
C5_Witness ==
  /\ Rendered
  /\ Multiples
  /\ plot.pixel_size = 2
  /\ plot.y2 = 2
  /\ width = 2
  /\ height = 2
  /\ \E x \in 0..1, y \in 0..1 : At(data, x, y) = BLACK
  /\ \E x \in 0..1, y \in 0..1 : At(data, x, y) = WHITE

====
